---- MODULE Spec2Model ----
(***************************************************************************)
(* GenFluxCatalog of beast/examples/phat_small/datamodel.py: the catalog   *)
(* adapter that turns Vega-normalised flux rates into absolute fluxes.     *)
(*                                                                         *)
(* Python values are modelled as follows.  A str used as a filter name is  *)
(* a TLA+ string; a str that is built by the code (a column name) is the   *)
(* sequence of its characters, so that lower() and + are computed.  A list *)
(* object that somebody else can still reach (the module-level `filters`)  *)
(* lives in `heap` and is passed by reference; a list literal made for one *)
(* call is passed with its contents.  Floats are integers: only products   *)
(* and equality are used.  Indices are 1-based in the model; the row index *)
(* `num` of getFlux keeps Python's 0-based (and negative) values.          *)
(***************************************************************************)
EXTENDS Integers, Sequences, FiniteSets, TLC

\* Longest list literal a caller passes as `filters`.
MaxLen == 2
\* Number of rows of the catalog file.
NRows == 2
\* Most setFilters calls made on one instance after its construction.
MaxSets == 2

VARIABLES
  heap,      \* contents of the list objects reachable by name
  obj,       \* the GenFluxCatalog instances (attributes of self)
  vegaOpen,  \* whether the Vega reference source is open
  opens,     \* per instance: Vega opens made by calls on it
  nset,      \* per instance: setFilters calls made after construction
  setok,     \* per instance: the latest setFilters call returned normally
  changed,   \* per instance: the latest setFilters call passed another list
  ret        \* the latest call and what it returned or raised

vars == <<heap, obj, vegaOpen, opens, nset, setok, changed, ret>>

----------------------------------------------------------------------------
\* Module-level configuration (datamodel.py lines 33-46).

filters ==
  << "HST_WFC3_F275W", "HST_WFC3_F336W", "HST_ACS_WFC_F475W",
     "HST_ACS_WFC_F814W", "HST_WFC3_F110W", "HST_WFC3_F160W" >>

basefilters ==
  << <<"F","2","7","5","W">>, <<"F","3","3","6","W">>, <<"F","4","7","5","W">>,
     <<"F","8","1","4","W">>, <<"F","1","1","0","W">>, <<"F","1","6","0","W">> >>

UpperCase == << "A","B","C","D","E","F","G","H","I","J","K","L","M",
                "N","O","P","Q","R","S","T","U","V","W","X","Y","Z" >>
LowerCase == << "a","b","c","d","e","f","g","h","i","j","k","l","m",
                "n","o","p","q","r","s","t","u","v","w","x","y","z" >>

\* str.lower(): every cased character replaced by its lower-case form.
lower(s) ==
  [ i \in 1..Len(s) |->
      IF \E j \in 1..Len(UpperCase) : UpperCase[j] = s[i]
      THEN LowerCase[CHOOSE j \in 1..Len(UpperCase) : UpperCase[j] = s[i]]
      ELSE s[i] ]

RateSuffix == <<"_","r","a","t","e">>

\* obs_colnames = [ f.lower() + '_rate' for f in basefilters ]
obs_colnames == [ ik \in 1..Len(basefilters) |-> lower(basefilters[ik]) \o RateSuffix ]

----------------------------------------------------------------------------
\* External collaborators: the catalog table and the Vega reference source.

\* The catalog file: NRows rows, one flux-rate column per filter.
Catalog ==
  [ r \in 1..NRows |->
      [ c \in { obs_colnames[j] : j \in 1..Len(obs_colnames) } |->
          LET j == CHOOSE j \in 1..Len(obs_colnames) : obs_colnames[j] = c
          IN  (r + r + r + r + r + r + r) + j ] ]

\* The reference database: the Vega flux of every filter it knows.
VegaDB ==
  [ f \in { filters[j] : j \in 1..Len(filters) } |->
      LET j == CHOOSE j \in 1..Len(filters) : filters[j] = f
      IN  <<2, 3, 5, 11, 13, 17>>[j] ]

\* Vega.getFlux(filters): the flux of each filter, in order; it raises when a
\* name is not in the database or when reading the source fails (qfail).
VegaGetFlux(F, qfail) ==
  IF qfail \/ \E k \in 1..Len(F) : F[k] \notin DOMAIN VegaDB
  THEN [ raised |-> TRUE,  flux |-> <<>> ]
  ELSE [ raised |-> FALSE, flux |-> [ k \in 1..Len(F) |-> VegaDB[F[k]] ] ]

\* table.resolve_alias(name) followed by the row lookup d[...]: the column the
\* alias names; a name with no alias is no column of the catalog.
ResolveAlias(aliases, name) ==
  IF name \in DOMAIN aliases
  THEN [ ok |-> TRUE,  col |-> aliases[name] ]
  ELSE [ ok |-> FALSE, col |-> <<>> ]

\* table.set_alias(alias, colname)
SetAlias(aliases, name, col) ==
  [ n \in (DOMAIN aliases) \cup {name} |-> IF n = name THEN col ELSE aliases[n] ]

----------------------------------------------------------------------------
\* Python objects.

ListIds == { "filters" }
Ref(id) == [ id |-> id, val |-> <<>> ]
Anon(s) == [ id |-> "anon", val |-> s ]

\* The contents of the list a reference denotes.
Deref(h, a) == IF a.id = "anon" THEN a.val ELSE h[a.id]

NoAliases == [ n \in {} |-> <<>> ]
NoBadValue == [ mant |-> 0, exp |-> 0 ]
BadValue == [ mant |-> 6, exp |-> 0 - 40 ]

Insts == { 1, 2 }

NoObj ==
  [ live |-> FALSE, data |-> <<>>, filters |-> Anon(<<>>), vega_flux |-> <<>>,
    aliases |-> NoAliases, badvalue |-> NoBadValue ]

NoRet ==
  [ op |-> "none", inst |-> 0, num |-> 0, units |-> "False",
    status |-> "ok", value |-> <<>>, tagged |-> FALSE ]

----------------------------------------------------------------------------
\* GenFluxCatalog.setFilters (lines 234-253).

\* with Vega() as v: _, vega_flux, _ = v.getFlux(filters)
\* The source is opened once, queried once, and closed when the block is
\* left, by return or by exception.
\* (the block written without `with`: a raising query skips the close)
WithVegaNoRelease(F, qfail) ==
  LET q == VegaGetFlux(F, qfail)
  IN  [ raised |-> q.raised, flux |-> q.flux, opened |-> 1, open |-> q.raised ]

\* (one lookup per filter instead of one for all filters)
WithVegaPerFilter(F, qfail) ==
  LET q == VegaGetFlux(F, qfail)
  IN  [ raised |-> q.raised, flux |-> q.flux, opened |-> Len(F), open |-> FALSE ]

WithVega(F, qfail) ==
  LET q == VegaGetFlux(F, qfail)
  IN  [ raised |-> q.raised, flux |-> q.flux, opened |-> 1, open |-> FALSE ]

setFilters(self, h, arg, qfail) ==
  LET self1 == [ self EXCEPT !.filters = arg ]
      w     == WithVega(Deref(h, arg), qfail)
  IN  IF w.raised
      THEN [ self |-> self1, status |-> "LookupError",
             opened |-> w.opened, open |-> w.open ]
      ELSE [ self |-> [ self1 EXCEPT !.vega_flux = w.flux ], status |-> "ok",
             opened |-> w.opened, open |-> w.open ]

----------------------------------------------------------------------------
\* GenFluxCatalog.__init__ (lines 191-203).

RECURSIVE AliasLoop(_, _, _)
\* for ik,k in enumerate(filters): self.data.set_alias(k, obs_colnames[ik])
AliasLoop(aliases, F, ik) ==
  IF ik > Len(F) THEN [ ok |-> TRUE, aliases |-> aliases ]
  ELSE IF ik > Len(obs_colnames) THEN [ ok |-> FALSE, aliases |-> aliases ]
  ELSE AliasLoop(SetAlias(aliases, F[ik], obs_colnames[ik]), F, ik + 1)

init(h, arg, qfail) ==
  LET self0 == [ NoObj EXCEPT !.live = TRUE, !.data = Catalog ]
      s     == setFilters(self0, h, arg, qfail)
      self1 == [ s.self EXCEPT !.badvalue = BadValue ]
      a     == AliasLoop(self1.aliases, Deref(h, arg), 1)
  IN  IF s.status # "ok"
      THEN [ self |-> NoObj, status |-> s.status, opened |-> s.opened, open |-> s.open ]
      ELSE IF ~a.ok
      THEN [ self |-> NoObj, status |-> "IndexError", opened |-> s.opened, open |-> s.open ]
      ELSE [ self |-> [ self1 EXCEPT !.aliases = a.aliases ], status |-> "ok",
             opened |-> s.opened, open |-> s.open ]

----------------------------------------------------------------------------
\* GenFluxCatalog.getFlux (lines 205-232).

\* d = self.data[num]: Python subscription of the row array; a negative index
\* counts from the end, an index beyond either end raises IndexError.
GetRow(data, num) ==
  IF 0 <= num /\ num < Len(data) THEN [ ok |-> TRUE, row |-> data[num + 1] ]
  ELSE IF 0 - Len(data) <= num /\ num < 0
       THEN [ ok |-> TRUE, row |-> data[Len(data) + num + 1] ]
  ELSE [ ok |-> FALSE, row |-> <<>> ]

\* np.array(raw) * self.vega_flux: the elementwise product of two 1-d arrays,
\* with numpy's broadcasting of a length-1 operand.
Multiply(a, b) ==
  IF Len(a) = Len(b)
  THEN [ ok |-> TRUE, v |-> [ k \in 1..Len(a) |-> a[k] * b[k] ] ]
  ELSE IF Len(a) = 1
  THEN [ ok |-> TRUE, v |-> [ k \in 1..Len(b) |-> a[1] * b[k] ] ]
  ELSE IF Len(b) = 1
  THEN [ ok |-> TRUE, v |-> [ k \in 1..Len(a) |-> a[k] * b[1] ] ]
  ELSE [ ok |-> FALSE, v |-> <<>> ]

\* `units is True`: identity with the bool True.
IsTrue(units) == units = "True"

\* The call's outcome, the attributes of self after it, and the Vega opens it
\* made (none: the reference vector is the cached attribute).
getFlux(self, h, num, units) ==
  LET d   == GetRow(self.data, num)
      F   == Deref(h, self.filters)
      res == [ k \in 1..Len(F) |-> ResolveAlias(self.aliases, F[k]) ]
      raw == [ k \in 1..Len(F) |-> d.row[res[k].col] ]
      m   == Multiply(raw, self.vega_flux)
      out(status, value, tagged) ==
        [ self |-> self, status |-> status, value |-> value, tagged |-> tagged,
          opened |-> 0 ]
  IN  IF ~d.ok THEN out("IndexError", <<>>, FALSE)
      ELSE IF \E k \in 1..Len(F) : ~res[k].ok THEN out("KeyError", <<>>, FALSE)
      ELSE IF ~m.ok THEN out("ValueError", <<>>, FALSE)
      ELSE IF IsTrue(units) THEN out("ok", m.v, TRUE)
      ELSE out("ok", m.v, FALSE)

----------------------------------------------------------------------------
\* The callers' inputs.

UnknownFilter == "HST_WFC3_F999X"
CallerNames == { filters[1], filters[4], UnknownFilter }

RECURSIVE SeqsUpTo(_, _)
\* The sequences of at most n distinct names of S.
SeqsUpTo(S, n) ==
  IF n = 0 THEN { <<>> }
  ELSE LET shorter == SeqsUpTo(S, n - 1)
       IN  shorter \cup
             UNION { { Append(s, x) : x \in S \ { s[k] : k \in 1..Len(s) } } :
                     s \in shorter }

\* The lists a caller passes: the module-level list (by reference, as the
\* default argument does) or a non-empty list literal.
CallerArgs ==
  { Ref(id) : id \in ListIds }
    \cup { Anon(s) : s \in SeqsUpTo(CallerNames, MaxLen) \ { <<>> } }

\* Python objects passed as `units`: the bools and a truthy int.
UnitsArgs == { "False", "True", "1" }
Truthy(units) == units \in { "True", "1" }

\* Row indices passed as `num`: in range, and beyond either end.
NumArgs == (0 - (NRows + 1)) .. NRows
InRange(num) == 0 <= num /\ num < NRows

----------------------------------------------------------------------------
\* Actions: one per call.

Init ==
  /\ heap = [ id \in ListIds |-> filters ]
  /\ obj = [ o \in Insts |-> NoObj ]
  /\ vegaOpen = FALSE
  /\ opens = [ o \in Insts |-> 0 ]
  /\ nset = [ o \in Insts |-> 0 ]
  /\ setok = [ o \in Insts |-> FALSE ]
  /\ changed = [ o \in Insts |-> FALSE ]
  /\ ret = NoRet

\* o = GenFluxCatalog(inputFile, distanceModulus, arg)
Construct(o, arg, qfail) ==
  /\ ~obj[o].live
  /\ LET r == init(heap, arg, qfail)
     IN  /\ obj' = [ obj EXCEPT ![o] = r.self ]
         /\ vegaOpen' = r.open
         /\ opens' = [ opens EXCEPT ![o] = r.opened ]
         /\ nset' = [ nset EXCEPT ![o] = 0 ]
         /\ setok' = [ setok EXCEPT ![o] = (r.status = "ok") ]
         /\ changed' = [ changed EXCEPT ![o] = FALSE ]
         /\ ret' = [ NoRet EXCEPT !.op = "init", !.inst = o, !.status = r.status ]
  /\ UNCHANGED heap

\* o.setFilters(arg)
SetFilters(o, arg, qfail) ==
  /\ obj[o].live
  /\ nset[o] < MaxSets
  /\ LET r == setFilters(obj[o], heap, arg, qfail)
     IN  /\ obj' = [ obj EXCEPT ![o] = r.self ]
         /\ vegaOpen' = r.open
         /\ opens' = [ opens EXCEPT ![o] = @ + r.opened ]
         /\ nset' = [ nset EXCEPT ![o] = @ + 1 ]
         /\ setok' = [ setok EXCEPT ![o] = (r.status = "ok") ]
         /\ changed' = [ changed EXCEPT ![o] =
                           Deref(heap, arg) # Deref(heap, obj[o].filters) ]
         /\ ret' = [ NoRet EXCEPT !.op = "setFilters", !.inst = o, !.status = r.status ]
  /\ UNCHANGED heap

\* o.getFlux(num, units)
GetFlux(o, num, units) ==
  /\ obj[o].live
  /\ LET r == getFlux(obj[o], heap, num, units)
     IN  /\ obj' = [ obj EXCEPT ![o] = r.self ]
         /\ opens' = [ opens EXCEPT ![o] = @ + r.opened ]
         /\ ret' = [ op |-> "getFlux", inst |-> o, num |-> num, units |-> units,
                     status |-> r.status, value |-> r.value, tagged |-> r.tagged ]
  /\ UNCHANGED <<heap, vegaOpen, nset, setok, changed>>

\* The holder of a named list shortens it in place: filters.pop().  The last
\* name is removed, down to the empty list; pop of an empty list raises
\* IndexError and leaves it empty.
ListPop(id) ==
  /\ IF Len(heap[id]) = 0
     THEN /\ heap' = heap
          /\ ret' = [ NoRet EXCEPT !.op = "pop", !.status = "IndexError" ]
     ELSE /\ heap' = [ heap EXCEPT ![id] = SubSeq(@, 1, Len(@) - 1) ]
          /\ ret' = [ NoRet EXCEPT !.op = "pop" ]
  /\ UNCHANGED <<obj, vegaOpen, opens, nset, setok, changed>>

\* One catalog, used through its three calls.
Next ==
  \/ \E arg \in CallerArgs, qfail \in BOOLEAN : Construct(1, arg, qfail)
  \/ \E arg \in CallerArgs, qfail \in BOOLEAN : SetFilters(1, arg, qfail)
  \/ \E num \in NumArgs, units \in UnitsArgs : GetFlux(1, num, units)

Spec == Init /\ [][Next]_vars

\* Two catalogs built with the default `filters` argument, and the module
\* that holds that list.
SharedArgs == { Ref("filters"), Anon(<<filters[1]>>) }

NextShared ==
  \/ \E o \in Insts : Construct(o, Ref("filters"), FALSE)
  \/ \E o \in Insts, arg \in SharedArgs : SetFilters(o, arg, FALSE)
  \/ \E o \in Insts, num \in 0..(NRows - 1) : GetFlux(o, num, "False")
  \/ \E id \in ListIds : ListPop(id)

SpecShared == Init /\ [][NextShared]_vars

----------------------------------------------------------------------------
\* Properties.

\* The active filter list of an instance.
Active(h, self) == Deref(h, self.filters)

\* The catalog column of filter f itself: its short name, lower-cased, with
\* the '_rate' suffix.
OwnColumn(f) ==
  LET j == CHOOSE j \in 1..Len(filters) : filters[j] = f
  IN  lower(basefilters[j]) \o RateSuffix

Known(f) == \E j \in 1..Len(filters) : filters[j] = f

\* C1: whenever getFlux(i) returns for an in-range i, the result has one
\* element per active filter, the k-th being the raw value of row i in the
\* column the k-th filter's alias resolves to, times the k-th element of the
\* cached reference vector.
C1_ElementwiseProduct ==
  (ret.op = "getFlux" /\ InRange(ret.num) /\ ret.status = "ok") =>
    LET self == obj[ret.inst]
        F    == Active(heap, self)
    IN  /\ Len(ret.value) = Len(F)
        /\ Len(self.vega_flux) = Len(F)
        /\ \A k \in 1..Len(F) :
             /\ F[k] \in DOMAIN self.aliases
             /\ ret.value[k] =
                  Catalog[ret.num + 1][self.aliases[F[k]]] * self.vega_flux[k]

\* C2: after construction every aliased filter name maps to the column of
\* that same filter.
C2_AliasOwnColumn ==
  \A o \in Insts :
    obj[o].live =>
      \A f \in DOMAIN obj[o].aliases : obj[o].aliases[f] = OwnColumn(f)

\* C3: once setFilters(G) has returned normally, G being another selection of
\* the catalog's filters than the one active before, getFlux(i) for an
\* in-range i returns len(G) values in the order of G, each the flux of that
\* filter of G: the raw value of the filter's own column times the filter's
\* Vega flux.
C3_GetFluxAfterSetFilters ==
  (/\ ret.op = "getFlux" /\ InRange(ret.num)
   /\ nset[ret.inst] > 0 /\ setok[ret.inst] /\ changed[ret.inst]
   /\ \A k \in 1..Len(Active(heap, obj[ret.inst])) :
        Active(heap, obj[ret.inst])[k] \in DOMAIN obj[ret.inst].aliases) =>
    LET G == Active(heap, obj[ret.inst])
    IN  /\ ret.status = "ok"
        /\ Len(ret.value) = Len(G)
        /\ \A k \in 1..Len(G) :
             /\ Known(G[k])
             /\ ret.value[k] = Catalog[ret.num + 1][OwnColumn(G[k])] * VegaDB[G[k]]

\* C4: getFlux with an index outside 0 <= index < row_count fails with a
\* range error.
C4_OutOfRangeFails ==
  (ret.op = "getFlux" /\ ~InRange(ret.num)) => ret.status = "IndexError"

\* C5: for an in-range row, getFlux with units set carries the values of the
\* plain call, in the same order, and is unit-tagged for every true value of
\* the flag; with units false the result is untagged.
C5_UnitsFlag ==
  (ret.op = "getFlux" /\ InRange(ret.num)) =>
    LET plain == getFlux(obj[ret.inst], heap, ret.num, "False")
    IN  /\ ret.status = plain.status
        /\ ret.value = plain.value
        /\ ~plain.tagged
        /\ (ret.status = "ok" => (ret.tagged <=> Truthy(ret.units)))

\* C6: a setFilters call on one instance, or a mutation of the list that was
\* passed as filters, changes neither the active filter list nor the
\* reference vector of another instance.
C6_NoSharedState ==
  [][ \A o \in Insts :
        (/\ obj[o].live
         /\ \/ ret'.op = "pop"
            \/ ret'.op = "setFilters" /\ ret'.inst # o) =>
          /\ Active(heap', obj'[o]) = Active(heap, obj[o])
          /\ obj'[o].vega_flux = obj[o].vega_flux ]_vars

\* C7: between calls the cached reference vector is the one looked up for the
\* current active filter list: same length, same order.
C7_VegaMatchesFilters ==
  \A o \in Insts :
    obj[o].live =>
      LET F == Active(heap, obj[o])
      IN  /\ Len(obj[o].vega_flux) = Len(F)
          /\ \A k \in 1..Len(F) :
               Known(F[k]) /\ obj[o].vega_flux[k] = VegaDB[F[k]]

\* C8: the Vega source is closed whenever a constructor or setFilters call
\* has exited, normally or by an exception of the query, and it is never open
\* between calls or after a getFlux.
C8_SourceClosed == vegaOpen = FALSE

C8_Witness ==
  /\ ret.op = "setFilters" /\ ret.status = "LookupError"
  /\ obj[ret.inst].live /\ ~vegaOpen

\* C9: an instance that was constructed and then had n setFilters calls has
\* made 1 + n opens of the reference source, whatever getFlux calls it had.
C9_OpenCount ==
  \A o \in Insts : obj[o].live => opens[o] = 1 + nset[o]

C9_Witness ==
  /\ ret.op = "getFlux" /\ ret.status = "ok"
  /\ nset[ret.inst] = MaxSets /\ Len(Active(heap, obj[ret.inst])) > 1

\* C10: a getFlux call, whatever its index and units, leaves the attributes
\* of every instance (filter list, reference vector, aliases, bad value,
\* catalog rows) and the lists they refer to unchanged; and between the
\* construction of an instance and the next setFilters call (any step that
\* is neither) its active filter list and reference vector do not change.
C10_GetFluxReadOnly ==
  [][ /\ ret'.op = "getFlux" => (obj' = obj /\ heap' = heap)
      /\ ret'.op \notin { "init", "setFilters" } =>
           \A o \in Insts :
             /\ Active(heap', obj'[o]) = Active(heap, obj[o])
             /\ obj'[o].vega_flux = obj[o].vega_flux ]_vars

====
